---- MODULE Spec2Model ----
(***************************************************************************)
(* Native-function wrapping of YarnSlinger-Rust:                           *)
(*   crates/core/src/yarn_fn/function_wrapping.rs                          *)
(* YarnFn (the signature abstraction generated for arities 0 and 1), the   *)
(* type-erased UntypedYarnFn boxes, and the YarnValueWrapper parameter     *)
(* slots with their borrowed (ResRef) and owned (ResOwned) extraction.     *)
(*                                                                         *)
(* Every value is a record of one shape [tag, s, n, b], so that values of  *)
(* different Rust types can be compared.  Option::None is the record None. *)
(***************************************************************************)
EXTENDS Integers, Sequences, FiniteSets, TLC

VARIABLES
    pool,        \* the Box<dyn UntypedYarnFn> values alive, in creation order
    cloneOf,     \* history: cloneOf[i] = j when pool[i] was made by cloning pool[j], else 0
    frames,      \* per thread: the stack frame of its invocation of UntypedYarnFn::call
    wrappers,    \* YarnValueWrapper values held by a caller of the public YarnFnParam API
    given,       \* history: given[i] is the YarnValue wrappers[i] was made from
    items,       \* items[i]: what the last YarnFnParam::retrieve on wrappers[i] handed out
    attempts,    \* history: attempts[i] counts the calls of retrieve on wrappers[i]
    paramPanic,  \* the panic that ended the caller of the YarnFnParam API ("" while it runs)
    accepted,    \* per candidate function: the outcome of accept_yarn_fn (does it compile)
    failed,      \* history: the callables an ended invocation of which has panicked
    plugin,      \* the YarnSlingerPlugin under construction
    target       \* the target_arch the plugin is built for ("" before with_yarn_files)

vars == <<pool, cloneOf, frames, wrappers, given, items, attempts, paramPanic, accepted,
          failed, plugin, target>>

callVars == <<pool, cloneOf, frames>>
paramVars == <<wrappers, given, items, attempts, paramPanic>>
pluginVars == <<plugin, target>>

-----------------------------------------------------------------------------
(* Bounds of the model *)

MaxPool == 2
MaxArgs == 2
MaxWrappers == 3

Threads == {"t1", "t2"}

-----------------------------------------------------------------------------
(* Values *)

V(tag, s, n, b) == [tag |-> tag, s |-> s, n |-> n, b |-> b]

None == V("None", "", 0, FALSE)
Err == V("Err", "", 0, FALSE)

YString(s) == V("YarnValue::String", s, 0, FALSE)
YNumber(n) == V("YarnValue::Number", "", n, FALSE)
YBoolean(b) == V("YarnValue::Boolean", "", 0, b)

RString(s) == V("String", s, 0, FALSE)
RUsize(n) == V("usize", "", n, FALSE)
RBool(b) == V("bool", "", 0, b)
RStr(s) == V("&str", s, 0, FALSE)
Borrowed == V("&", "", 0, FALSE)

YarnValues == {YString("hello"), YNumber(21)}

Inputs == UNION {[1..n -> YarnValues] : n \in 0..MaxArgs}

\* TryFrom<YarnValue> for T: fails when the kinds mismatch.
TryFromYarnValue(T, v) ==
    CASE T = "String" /\ v.tag = "YarnValue::String" -> RString(v.s)
      [] T = "usize" /\ v.tag = "YarnValue::Number" -> RUsize(v.n)
      [] T = "bool" /\ v.tag = "YarnValue::Boolean" -> RBool(v.b)
      [] OTHER -> Err

\* IntoYarnValueFromNonYarnValue::into_untyped_value
IntoUntypedValue(o) ==
    CASE o.tag = "bool" -> YBoolean(o.b)
      [] o.tag = "usize" -> YNumber(o.n)
      [] o.tag = "String" -> YString(o.s)
      [] OTHER -> None

\* AsRef<U> for T: the view handed out by a borrowed extraction
AsRef(x) == IF x.tag = "String" THEN RStr(x.s) ELSE x

-----------------------------------------------------------------------------
(* The native functions handed to the wrapping mechanism *)

FnDefs == {"f_true", "f_len", "f_double", "cl_len", "cl_len1"}

Params(f) ==
    CASE f = "f_true" -> <<>>
      [] f = "f_len" -> <<"&str">>
      [] f = "f_double" -> <<"usize">>
      [] f = "cl_len" -> <<"String">>
      [] f = "cl_len1" -> <<"String">>
      [] f = "g_string" -> <<"String">>
      [] f = "g_bool" -> <<"bool">>
      [] f = "g_f32" -> <<"f32">>
      [] f = "g_value" -> <<"YarnValue">>
      [] f = "g_two" -> <<"String", "usize">>
      [] OTHER -> <<>>

Out(f) ==
    CASE f \in {"f_true", "g_string", "g_bool", "g_value", "g_two"} -> "bool"
      [] f = "g_f32" -> "f32"
      [] OTHER -> "usize"

\* The body of each native function, on its (dereferenced) arguments
NativeApply(f, a) ==
    CASE f = "f_true" -> RBool(TRUE)
      [] f = "f_len" -> RUsize(Len(a[1].s))
      [] f = "f_double" -> RUsize(2 * a[1].n)
      [] f = "cl_len" -> RUsize(Len(a[1].s))
      [] f = "cl_len1" -> RUsize(Len(a[1].s) + 1)
      [] OTHER -> RBool(TRUE)

\* std::any::type_name::<F>(): a function item has its own path, and every
\* closure written in one function has the name of that function's closures.
TypeName(f) ==
    CASE f \in {"cl_len", "cl_len1"} -> "host::setup::{{closure}}"
      [] OTHER -> "host::" \o f

\* std::any::type_name::<fn(P,) -> O>()
SignatureName(m) ==
    "fn(" \o (IF Len(m.params) = 0 THEN "" ELSE m.params[1]) \o ") -> " \o m.out

TypeIdOf(T) == <<"TypeId", T>>

-----------------------------------------------------------------------------
(* YarnFnWrapper and the type-erased callable *)

YarnFnWrapperFrom(f) ==
    [function |-> f, marker |-> [params |-> Params(f), out |-> Out(f)]]

NoCallable == [function |-> "", marker |-> [params |-> <<>>, out |-> ""]]

CloneBoxWrong(c) == YarnFnWrapperFrom("f_true")

CloneBox(c) == [function |-> c.function, marker |-> c.marker]

ParameterTypesEmpty(c) == <<>>

ParameterTypes(c) ==
    [i \in 1..Len(c.marker.params) |-> TypeIdOf(c.marker.params[i])]

ReturnType(c) == TypeIdOf(c.marker.out)

DebugFmt(c) == SignatureName(c.marker) \o " {" \o TypeName(c.function) \o "}"

BoxEqSelf(a, b) == DebugFmt(a) = DebugFmt(a)

\* PartialEq for Box<dyn UntypedYarnFn + Send + Sync>
BoxEq(a, b) == DebugFmt(a) = DebugFmt(b)

-----------------------------------------------------------------------------
(* Parameter slots *)

PanicArity == "Wrong number of arguments"
PanicUnwrapNone == "called Option::unwrap() on a None value"
PanicCast == "called Result::unwrap() on an Err value"

YarnValueWrapperFrom(v) == [raw |-> v, converted |-> None]

ConvertLenient(w, T) ==
    IF w.raw = None
    THEN [w |-> w, panic |-> PanicUnwrapNone]
    ELSE LET r == TryFromYarnValue(T, w.raw) IN
         [w |-> [raw |-> None,
                 converted |-> IF r # Err THEN r
                               ELSE IF T = "usize" THEN RUsize(0) ELSE RString("")],
          panic |-> ""]

\* convert: take the raw value, unwrap it, convert it, unwrap, store the result
Convert(w, T) ==
    IF w.raw = None
    THEN [w |-> w, panic |-> PanicUnwrapNone]
    ELSE LET r == TryFromYarnValue(T, w.raw) IN
         IF r = Err
         THEN [w |-> [w EXCEPT !.raw = None], panic |-> PanicCast]
         ELSE [w |-> [raw |-> None, converted |-> r], panic |-> ""]

\* ResRef::retrieve: the item borrows the slot's converted value
ResRefRetrieve(w, T) ==
    LET cv == Convert(w, T) IN
    IF cv.panic # ""
    THEN [w |-> cv.w, item |-> None, panic |-> cv.panic]
    ELSE [w |-> cv.w, item |-> Borrowed, panic |-> ""]

ResOwnedRetrieveKeep(w, T) ==
    LET cv == Convert(w, T) IN
    IF cv.panic # ""
    THEN [w |-> cv.w, item |-> None, panic |-> cv.panic]
    ELSE [w |-> cv.w, item |-> cv.w.converted, panic |-> ""]

\* ResOwned::retrieve: the converted value is moved out of the slot
ResOwnedRetrieve(w, T) ==
    LET cv == Convert(w, T) IN
    IF cv.panic # ""
    THEN [w |-> cv.w, item |-> None, panic |-> cv.panic]
    ELSE [w |-> [cv.w EXCEPT !.converted = None], item |-> cv.w.converted, panic |-> ""]

\* impl_ref_param! { [&str => String] }, impl_owned_param! { [String, usize] }
RefParams == {"&str"}
OwnedParams == {"String", "usize"}

YarnFnParamRetrieve(P, w) ==
    IF P \in RefParams
    THEN ResRefRetrieve(w, "String")
    ELSE ResOwnedRetrieve(w, P)

StoreSlotAll(ws, k, w) == [j \in DOMAIN ws |-> w]

\* retrieve(value: &mut YarnValueWrapper) writes through its one exclusive borrow
StoreSlot(ws, k, w) == [ws EXCEPT ![k] = w]

-----------------------------------------------------------------------------
(* One invocation: the frame of UntypedYarnFn::call and of YarnFn::call *)

IdleFrame ==
    [pc |-> "idle", c |-> NoCallable, input |-> <<>>, P |-> <<>>, slots |-> <<>>,
     args |-> <<>>, output |-> None, result |-> None, panic |-> "", calls |-> 0,
     events |-> <<>>]

\* history of an invocation: what it did, in the order it did it
Event(e, k, ok) == [e |-> e, k |-> k, ok |-> ok]
Log(fr, ev) == [fr EXCEPT !.events = Append(fr.events, ev)]

Enter(c, input) == [IdleFrame EXCEPT !.pc = "entered", !.c = c, !.input = input]

Panicked(fr, msg) == [fr EXCEPT !.pc = "panicked", !.panic = msg]

MatchArityPrefix(fr) ==
    LET n == Len(fr.c.marker.params) IN
    IF Len(fr.input) >= n
    THEN Log([fr EXCEPT !.pc = "bound", !.P = SubSeq(fr.input, 1, n)], Event("arity", 0, TRUE))
    ELSE Log(Panicked(fr, PanicArity), Event("arity", 0, FALSE))

\* let [P,] = input[..] else { panic!(..) }
MatchArity(fr) ==
    IF Len(fr.input) = Len(fr.c.marker.params)
    THEN Log([fr EXCEPT !.pc = "bound", !.P = fr.input], Event("arity", 0, TRUE))
    ELSE Log(Panicked(fr, PanicArity), Event("arity", 0, FALSE))

\* let (P,) = (YarnValueWrapper::from(P),)
WrapArgs(fr) ==
    [fr EXCEPT !.pc = "wrapped",
               !.slots = [i \in 1..Len(fr.P) |-> YarnValueWrapperFrom(fr.P[i])]]

RetrieveNextLazy(fr) ==
    LET k == Len(fr.args) + 1
        r == YarnFnParamRetrieve(fr.c.marker.params[k], fr.slots[k])
        fr2 == [fr EXCEPT !.slots = StoreSlot(fr.slots, k, r.w)]
    IN  Log([fr2 EXCEPT !.args = Append(fr.args, r.item)], Event("extract", k, r.panic = ""))

\* The next element of the tuple ($param::retrieve(&mut $param),)
RetrieveNext(fr) ==
    LET k == Len(fr.args) + 1
        r == YarnFnParamRetrieve(fr.c.marker.params[k], fr.slots[k])
        fr2 == [fr EXCEPT !.slots = StoreSlot(fr.slots, k, r.w)]
    IN  IF r.panic # ""
        THEN Log(Panicked(fr2, r.panic), Event("extract", k, FALSE))
        ELSE Log([fr2 EXCEPT !.args = Append(fr.args, r.item)], Event("extract", k, TRUE))

\* What the native function sees in position k
Deref(fr, k) ==
    IF fr.args[k] = Borrowed THEN AsRef(fr.slots[k].converted) ELSE fr.args[k]

\* self(P,)
InvokeNative(fr) ==
    Log([fr EXCEPT !.pc = "returned",
                   !.output = NativeApply(fr.c.function,
                                          [k \in 1..Len(fr.args) |-> Deref(fr, k)]),
                   !.calls = fr.calls + 1],
        Event("invoke", 0, TRUE))

FinishCallDefault(fr) == [fr EXCEPT !.pc = "done", !.result = YBoolean(FALSE)]

\* output.into_untyped_value(); the slots are dropped
FinishCall(fr) == [fr EXCEPT !.pc = "done", !.result = IntoUntypedValue(fr.output)]

StepFrame(fr) ==
    CASE fr.pc = "entered" -> MatchArity(fr)
      [] fr.pc = "bound" -> WrapArgs(fr)
      [] fr.pc = "wrapped" /\ Len(fr.args) < Len(fr.slots) -> RetrieveNext(fr)
      [] fr.pc = "wrapped" /\ Len(fr.args) = Len(fr.slots) -> InvokeNative(fr)
      [] fr.pc = "returned" -> FinishCall(fr)
      [] OTHER -> fr

RECURSIVE RunFrame(_)
RunFrame(fr) == IF fr.pc \in {"done", "panicked", "idle"} THEN fr ELSE RunFrame(StepFrame(fr))

Outcome(fr) == [result |-> fr.result, panic |-> fr.panic, calls |-> fr.calls]

\* UntypedYarnFn::call run from start to end with nothing else going on
CallOutcome(c, input) == Outcome(RunFrame(Enter(c, input)))

StoreFrameShared(fs, t, fr) ==
    [u \in Threads |->
        IF u = t THEN fr
        ELSE IF fs[u].pc = "wrapped" /\ Len(fs[u].slots) = Len(fr.slots)
             THEN [fs[u] EXCEPT !.slots = fr.slots]
             ELSE fs[u]]

StoreFramePoisoning(fs, t, fr) ==
    IF fs[t].pc = "panicked"
    THEN [fs EXCEPT ![t] = [fr EXCEPT !.panic = fs[t].panic]]
    ELSE IF fs[t].pc = "idle" /\ fs[t].panic # ""
         THEN [fs EXCEPT ![t] = [fr EXCEPT !.pc = "panicked", !.panic = fs[t].panic]]
         ELSE [fs EXCEPT ![t] = fr]

\* The locals of an invocation live in that invocation's own stack frame
StoreFrame(fs, t, fr) == [fs EXCEPT ![t] = fr]

-----------------------------------------------------------------------------
(* The YarnSlingerPlugin builder: its fields and its providers *)

NoLanguage == [some |-> FALSE, language |-> ""]
SomeLanguage(l) == [some |-> TRUE, language |-> l]

NoLocalizations ==
    [some |-> FALSE, base_language |-> "", translations |-> {},
     file_generation_mode |-> ""]
SomeLocalizations(l, tr, m) ==
    [some |-> TRUE, base_language |-> l, translations |-> tr,
     file_generation_mode |-> m]

Languages == {"en-US", "fr-FR"}
FileGenerationModes == {"Development", "Production"}
LocalizationsGiven ==
    {NoLocalizations} \cup
    {SomeLocalizations(l, tr, m) :
        l \in Languages, tr \in {{}, {"de-CH"}}, m \in FileGenerationModes}

\* A provider, seen through what was last set on it
NoProvider ==
    [some |-> FALSE, id |-> "", language |-> NoLanguage,
     localizations |-> NoLocalizations]
AssetProvider(id, language) ==
    [some |-> TRUE, id |-> id, language |-> language,
     localizations |-> NoLocalizations]
TextProvider(id, language) == [id |-> id, language |-> language]

AssetProvidersGiven ==
    {AssetProvider(id, language) :
        id \in {"FileExtensionAssetProvider", "AudioAssetProvider"},
        language \in {NoLanguage, SomeLanguage("de-CH")}}
TextProvidersGiven ==
    {TextProvider("CustomTextProvider", language) :
        language \in {NoLanguage, SomeLanguage("de-CH")}}

SetLanguage(provider, language) == [provider EXCEPT !.language = language]
SetLocalizations(provider, localizations) ==
    [provider EXCEPT !.localizations = localizations]

StandardLibrary == {"string", "number", "bool"}
LibrariesGiven == {{"roll_dice"}, {"string", "pow"}}
YarnFilesGiven == {{"hello.yarn"}, {"hello.yarn", "bye.yarn"}}
Targets == {"x86_64", "wasm32"}

\* AdvancedPluginConfig::default()
DefaultAdvanced ==
    [variable_storage |-> "MemoryVariableStore",
     text_provider |-> TextProvider("StringTableTextProvider", NoLanguage)]

WithVariableStorage(advanced, variable_storage) ==
    [advanced EXCEPT !.variable_storage = variable_storage]
WithTextProvider(advanced, text_provider) ==
    [advanced EXCEPT !.text_provider = text_provider]

\* The closures handed to with_advanced_config
ConfigsGiven ==
    {[op |-> "identity", variable_storage |-> "", text_provider |-> TextProvider("", NoLanguage)]}
    \cup {[op |-> "with_variable_storage", variable_storage |-> "CustomVariableStorage",
           text_provider |-> TextProvider("", NoLanguage)]}
    \cup {[op |-> "with_text_provider", variable_storage |-> "", text_provider |-> tp] :
            tp \in TextProvidersGiven}
ApplyConfig(config, advanced) ==
    CASE config.op = "identity" -> advanced
      [] config.op = "with_variable_storage" ->
            WithVariableStorage(advanced, config.variable_storage)
      [] config.op = "with_text_provider" ->
            WithTextProvider(advanced, config.text_provider)

NoPlugin ==
    [built |-> FALSE, localizations |-> NoLocalizations,
     asset_provider |-> NoProvider, yarn_files |-> {},
     advanced |-> DefaultAdvanced, library |-> {}, panic |-> ""]

PanicWasmDevelopment ==
    "Failed to build Yarn Slinger plugin: File generation mode Development is not supported on Wasm"

UpdateLanguageCodeTextOnly(self) ==
    LET language == IF self.localizations.some
                    THEN SomeLanguage(self.localizations.base_language)
                    ELSE NoLanguage
    IN  [self EXCEPT !.advanced.text_provider = SetLanguage(@, language)]

UpdateLanguageCode(self) ==
    LET language == IF self.localizations.some
                    THEN SomeLanguage(self.localizations.base_language)
                    ELSE NoLanguage
        withText == [self EXCEPT !.advanced.text_provider = SetLanguage(@, language)]
    IN  IF withText.asset_provider.some
        THEN LET withAsset ==
                     [withText EXCEPT !.asset_provider = SetLanguage(@, language)]
             IN  IF withAsset.localizations.some
                 THEN [withAsset EXCEPT !.asset_provider =
                           SetLocalizations(@, withAsset.localizations)]
                 ELSE withAsset
        ELSE withText

-----------------------------------------------------------------------------
(* Actions on callables and invocations *)

Init ==
    /\ pool = <<>>
    /\ cloneOf = <<>>
    /\ frames = [t \in Threads |-> IdleFrame]
    /\ wrappers = <<>>
    /\ given = <<>>
    /\ items = <<>>
    /\ attempts = <<>>
    /\ paramPanic = ""
    /\ accepted = [f \in {} |-> FALSE]
    /\ failed = {}
    /\ plugin = NoPlugin
    /\ target = ""

\* Box::new(YarnFnWrapper::from(f))
Wrap(f) ==
    /\ Len(pool) < MaxPool
    /\ pool' = Append(pool, YarnFnWrapperFrom(f))
    /\ cloneOf' = Append(cloneOf, 0)
    /\ UNCHANGED <<frames, paramVars, accepted, failed, pluginVars>>

\* Clone for Box<dyn UntypedYarnFn + Send + Sync>
Clone(i) ==
    /\ Len(pool) < MaxPool
    /\ pool' = Append(pool, CloneBox(pool[i]))
    /\ cloneOf' = Append(cloneOf, i)
    /\ UNCHANGED <<frames, paramVars, accepted, failed, pluginVars>>

\* UntypedYarnFn::call is entered and YarnFn::call matches the slice pattern
Call(t, i, input) ==
    /\ frames[t].pc = "idle"
    /\ frames' = StoreFrame(frames, t, MatchArity(Enter(pool[i], input)))
    /\ UNCHANGED <<pool, cloneOf, paramVars, accepted, failed, pluginVars>>

Wrapping(t) ==
    /\ frames[t].pc = "bound"
    /\ frames' = StoreFrame(frames, t, WrapArgs(frames[t]))
    /\ UNCHANGED <<pool, cloneOf, paramVars, accepted, failed, pluginVars>>

Extract(t) ==
    /\ frames[t].pc = "wrapped"
    /\ Len(frames[t].args) < Len(frames[t].slots)
    /\ frames' = StoreFrame(frames, t, RetrieveNext(frames[t]))
    /\ UNCHANGED <<pool, cloneOf, paramVars, accepted, failed, pluginVars>>

Invoke(t) ==
    /\ frames[t].pc = "wrapped"
    /\ Len(frames[t].args) = Len(frames[t].slots)
    /\ frames' = StoreFrame(frames, t, InvokeNative(frames[t]))
    /\ UNCHANGED <<pool, cloneOf, paramVars, accepted, failed, pluginVars>>

Finish(t) ==
    /\ frames[t].pc = "returned"
    /\ frames' = StoreFrame(frames, t, FinishCall(frames[t]))
    /\ UNCHANGED <<pool, cloneOf, paramVars, accepted, failed, pluginVars>>

\* The caller has its result (or the panic has unwound): the frame is gone
Return(t) ==
    /\ frames[t].pc \in {"done", "panicked"}
    /\ frames' = StoreFrame(frames, t, IdleFrame)
    /\ UNCHANGED <<pool, cloneOf, paramVars, accepted, failed, pluginVars>>

Next ==
    \/ \E f \in FnDefs : Wrap(f)
    \/ \E i \in DOMAIN pool : Clone(i)
    \/ \E t \in Threads, i \in DOMAIN pool, input \in Inputs : Call(t, i, input)
    \/ \E t \in Threads : Wrapping(t)
    \/ \E t \in Threads : Extract(t)
    \/ \E t \in Threads : Invoke(t)
    \/ \E t \in Threads : Finish(t)
    \/ \E t \in Threads : Return(t)

Spec == Init /\ [][Next]_vars

-----------------------------------------------------------------------------
(* The extraction protocol used directly: YarnValueWrapper, YarnFnParam and   *)
(* its retrieve are public, so a caller can hold several slots and extract    *)
(* from them in any order, as the tuple of YarnFn::call does for its own.     *)

ParamTypes == RefParams \cup OwnedParams

\* YarnValueWrapper::from(value)
NewWrapper(v) ==
    /\ paramPanic = ""
    /\ Len(wrappers) < MaxWrappers
    /\ wrappers' = Append(wrappers, YarnValueWrapperFrom(v))
    /\ given' = Append(given, v)
    /\ items' = Append(items, None)
    /\ attempts' = Append(attempts, 0)
    /\ UNCHANGED <<callVars, paramPanic, accepted, failed, pluginVars>>

\* <P as YarnFnParam>::retrieve(&mut wrappers[i])
Retrieve(i, P) ==
    /\ paramPanic = ""
    /\ LET r == YarnFnParamRetrieve(P, wrappers[i]) IN
        /\ wrappers' = StoreSlot(wrappers, i, r.w)
        /\ items' = [items EXCEPT ![i] = r.item]
        /\ paramPanic' = r.panic
    /\ attempts' = [attempts EXCEPT ![i] = @ + 1]
    /\ UNCHANGED <<callVars, given, accepted, failed, pluginVars>>

NextParam ==
    \/ \E v \in YarnValues : NewWrapper(v)
    \/ \E i \in DOMAIN wrappers, P \in ParamTypes : Retrieve(i, P)

SpecParam == Init /\ [][NextParam]_vars

-----------------------------------------------------------------------------
(* Which functions are YarnFn: the impls the macros generate *)

\* all_tuples!(impl_yarn_fn_tuple, 0, 1, P)
MinTuple == 0
MaxTuple == 1

\* The types with an IntoYarnValueFromNonYarnValue impl
NumericTypes ==
    {"f32", "f64", "i8", "i16", "i32", "i64", "i128",
     "u8", "u16", "u32", "u64", "u128", "usize", "isize"}
IntoYarnValueImpls == {"bool", "String"} \cup NumericTypes

\* F: YarnFn<fn(P,) -> O> for the generated tuples, P: YarnFnParam,
\* O: IntoYarnValueFromNonYarnValue
IsYarnFn(f) ==
    /\ Len(Params(f)) \in MinTuple..MaxTuple
    /\ \A k \in DOMAIN Params(f) : Params(f)[k] \in RefParams \cup OwnedParams
    /\ Out(f) \in IntoYarnValueImpls

\* The properties the doc comment of YarnFn lists
DocQualifies(f) ==
    /\ \A k \in DOMAIN Params(f) :
          Params(f)[k] \in {"bool", "String", "YarnValue"} \cup NumericTypes
    /\ Out(f) \in {"bool", "String"} \cup NumericTypes

Candidates == FnDefs \cup {"g_string", "g_bool", "g_f32", "g_value", "g_two"}

\* accept_yarn_fn(f): does the call compile
AcceptYarnFn(f) ==
    /\ f \notin DOMAIN accepted
    /\ accepted' = [g \in DOMAIN accepted \cup {f} |->
                       IF g = f THEN IsYarnFn(f) ELSE accepted[g]]
    /\ UNCHANGED <<callVars, paramVars, failed, pluginVars>>

NextAccept == \E f \in Candidates : AcceptYarnFn(f)

SpecAccept == Init /\ [][NextAccept]_vars

-----------------------------------------------------------------------------
(* Properties of an invocation *)

Arity(c) == Len(c.marker.params)

\* The type a slot of parameter type P is converted to (&str => String)
TargetType(P) == IF P \in RefParams THEN "String" ELSE P

Converts(fr, k) == TryFromYarnValue(TargetType(fr.c.marker.params[k]), fr.input[k]) # Err

\* What the native function returns when called directly on the converted arguments
DirectResult(fr) ==
    NativeApply(fr.c.function,
        [k \in 1..Arity(fr.c) |->
            LET x == TryFromYarnValue(TargetType(fr.c.marker.params[k]), fr.input[k])
            IN  IF fr.c.marker.params[k] \in RefParams THEN AsRef(x) ELSE x])

Ended(fr) == fr.pc \in {"done", "panicked"}

\* C1: a wrapped function of arity N (0 or 1) called with exactly N values
\* whose kinds convert to its parameter types returns the dynamic value that
\* converting the function's direct result on the converted arguments gives:
\* f() = true gives boolean true, length on "hello" gives 5, 2*x on 21 gives 42.
C1_CallReturnsConvertedResult ==
    \A t \in Threads :
        LET fr == frames[t] IN
        /\ (/\ Ended(fr)
            /\ Len(fr.input) = Arity(fr.c)
            /\ \A k \in 1..Arity(fr.c) : Converts(fr, k))
           => (/\ fr.pc = "done"
               /\ fr.panic = ""
               /\ fr.calls = 1
               /\ fr.result = IntoUntypedValue(DirectResult(fr)))
        /\ (Ended(fr) /\ fr.c.function = "f_true" /\ fr.input = <<>>)
           => fr.result = YBoolean(TRUE)
        /\ (Ended(fr) /\ fr.c.function = "f_len" /\ fr.input = <<YString("hello")>>)
           => fr.result = YNumber(5)
        /\ (Ended(fr) /\ fr.c.function = "f_double" /\ fr.input = <<YNumber(21)>>)
           => fr.result = YNumber(42)

C1_Witness ==
    \E t, u \in Threads :
        /\ frames[t].pc = "done" /\ frames[t].c.function = "f_len"
        /\ frames[t].result = YNumber(5)
        /\ frames[u].pc = "done" /\ frames[u].c.function = "f_double"
        /\ frames[u].result = YNumber(42)

\* C2: a call with an argument sequence shorter or longer than the declared
\* arity ends in the arity-mismatch panic: the native function is not invoked,
\* nothing is returned and no argument is bound, truncated or padded.
C2_ArityMismatchFails ==
    \A t \in Threads :
        LET fr == frames[t] IN
        (fr.pc # "idle" /\ Len(fr.input) # Arity(fr.c))
        => (/\ fr.pc = "panicked"
            /\ fr.panic = PanicArity
            /\ fr.calls = 0
            /\ fr.result = None /\ fr.output = None
            /\ fr.P = <<>> /\ fr.slots = <<>> /\ fr.args = <<>>)

C2_Witness ==
    \E t, u \in Threads :
        /\ frames[t].pc = "panicked" /\ Len(frames[t].input) < Arity(frames[t].c)
        /\ frames[u].pc = "panicked" /\ Len(frames[u].input) > Arity(frames[u].c)
        /\ Arity(frames[u].c) = 1

\* C3: when the value in a parameter slot does not convert to the type the
\* slot requires, the invocation ends in the conversion panic: the slot yields
\* no argument (none is substituted), the native function is not invoked and
\* nothing is returned.
C3_KindMismatchFails ==
    \A t \in Threads :
        LET fr == frames[t] IN
        \A k \in 1..Arity(fr.c) :
            (Len(fr.input) = Arity(fr.c) /\ ~Converts(fr, k))
            => (/\ Len(fr.args) < k
                /\ fr.calls = 0
                /\ fr.result = None /\ fr.output = None
                /\ fr.pc \in {"bound", "wrapped", "panicked"}
                /\ fr.pc = "panicked" => fr.panic = PanicCast)

C3_Witness ==
    \E t \in Threads :
        /\ frames[t].pc = "panicked" /\ frames[t].panic = PanicCast
        /\ frames[t].c.function = "f_double"
        /\ frames[t].input = <<YString("hello")>>

-----------------------------------------------------------------------------
(* Properties of the extraction protocol *)

\* C4: a slot is converted at most once, and no sequence of the public
\* operations reaches an extraction attempted on a slot whose raw value has
\* already been consumed.
C4_NoSecondExtraction ==
    /\ \A i \in DOMAIN wrappers : attempts[i] <= 1
    /\ paramPanic # PanicUnwrapNone
    /\ \A t \in Threads : frames[t].panic # PanicUnwrapNone

\* The value an extracted item stands for: a borrowed item is a view of the
\* converted value its slot keeps
ItemValue(i) ==
    IF items[i] = Borrowed THEN AsRef(wrappers[i].converted) ELSE items[i]

C9_ItemsRight ==
    \A i \in DOMAIN wrappers :
        items[i] # None =>
            ItemValue(i) = (IF items[i] = Borrowed
                            THEN AsRef(TryFromYarnValue("String", given[i]))
                            ELSE TryFromYarnValue(items[i].tag, given[i]))

C9_OnlyOwnSlot ==
    \A i \in DOMAIN wrappers :
        attempts'[i] # attempts[i] =>
            \A j \in DOMAIN wrappers \ {i} :
                /\ wrappers'[j] = wrappers[j]
                /\ items'[j] = items[j]

\* C9: extracting one slot reads and writes only that slot: every other
\* slot's raw and converted contents stay as they were, and what a borrowed
\* extraction of one position hands out and what an owned extraction of
\* another position hands out are each the conversion of that slot's own value.
C9_SlotsIndependent == []C9_ItemsRight /\ [][C9_OnlyOwnSlot]_vars

C9_Witness ==
    \E i, j \in DOMAIN wrappers :
        /\ items[i] = Borrowed /\ ItemValue(i) = RStr("hello")
        /\ items[j] = RUsize(21)
        /\ wrappers[j] = [raw |-> None, converted |-> None]
        /\ paramPanic = ""

-----------------------------------------------------------------------------
(* Properties of the type-erased callable *)

\* C5: a clone made by clone_box behaves as the callable it was cloned from:
\* for every argument sequence the same returned value or the same failure,
\* and the same parameter_types and return_type, whatever clones and
\* invocations have happened since.
C5_CloneBehavesAlike ==
    \A i \in DOMAIN pool :
        cloneOf[i] # 0 =>
            /\ \A input \in Inputs :
                  CallOutcome(pool[i], input) = CallOutcome(pool[cloneOf[i]], input)
            /\ ParameterTypes(pool[i]) = ParameterTypes(pool[cloneOf[i]])
            /\ ReturnType(pool[i]) = ReturnType(pool[cloneOf[i]])

C5_Witness ==
    \E i \in DOMAIN pool :
        /\ cloneOf[i] # 0
        /\ Arity(pool[i]) = 1
        /\ \E t, u \in Threads :
              /\ frames[t].pc = "done" /\ frames[t].c = pool[i]
              /\ frames[u].pc = "panicked" /\ frames[u].c = pool[i]

C6_QueriesMatchCall ==
    /\ \A i \in DOMAIN pool :
          /\ Len(ParameterTypes(pool[i])) = Len(Params(pool[i].function))
          /\ \A k \in DOMAIN ParameterTypes(pool[i]) :
                ParameterTypes(pool[i])[k] = TypeIdOf(Params(pool[i].function)[k])
          /\ ReturnType(pool[i]) = TypeIdOf(Out(pool[i].function))
    /\ \A t \in Threads :
          LET fr == frames[t] IN
          /\ fr.pc \in {"bound", "wrapped", "returned", "done"}
             => Len(ParameterTypes(fr.c)) = Len(fr.input)
          /\ (fr.pc = "panicked" /\ fr.panic = PanicArity)
             => Len(ParameterTypes(fr.c)) # Len(fr.input)

C6_QueriesStable ==
    \A i \in DOMAIN pool :
        /\ i \in DOMAIN pool'
        /\ ParameterTypes(pool'[i]) = ParameterTypes(pool[i])
        /\ ReturnType(pool'[i]) = ReturnType(pool[i])

\* C6: parameter_types() has as many entries as the one argument count call
\* accepts, in parameter order, and neither it nor return_type() changes with
\* invocations, failed or not, or clones.
C6_Introspection == []C6_QueriesMatchCall /\ [][C6_QueriesStable]_vars

C6_Witness ==
    \E i \in DOMAIN pool :
        /\ cloneOf[i] # 0
        /\ Len(ParameterTypes(pool[i])) = 1
        /\ \E t, u \in Threads :
              /\ frames[t].pc = "done" /\ frames[t].c = pool[i]
              /\ frames[u].pc = "panicked" /\ frames[u].c = pool[i]
              /\ frames[u].panic = PanicArity

\* C7 as claimed: two callables compare equal exactly when they wrap the same
\* native function definition, and a callable equals its clone.
C7_EqualIffSameDefinition ==
    \A i, j \in DOMAIN pool :
        /\ BoxEq(pool[i], pool[j]) <=> (pool[i].function = pool[j].function)
        /\ cloneOf[i] = j => BoxEq(pool[i], pool[j])

\* C7 as amended: two wrappings of the same definition compare equal, a
\* callable equals its clone, and wrappings of different definitions compare
\* unequal when their signature type names or their function type names
\* differ; definitions that share both (closures of one function) are equal.
C7_EqualByTypeNames ==
    \A i, j \in DOMAIN pool :
        /\ pool[i].function = pool[j].function => BoxEq(pool[i], pool[j])
        /\ cloneOf[i] = j => BoxEq(pool[i], pool[j])
        /\ BoxEq(pool[i], pool[j]) <=>
              (/\ SignatureName(pool[i].marker) = SignatureName(pool[j].marker)
               /\ TypeName(pool[i].function) = TypeName(pool[j].function))

C7_Witness ==
    \E i, j \in DOMAIN pool :
        /\ i # j /\ cloneOf[i] = 0 /\ cloneOf[j] = 0
        /\ pool[i].function # pool[j].function
        /\ TypeName(pool[i].function) # TypeName(pool[j].function)
        /\ ~BoxEq(pool[i], pool[j])

\* C8: under every interleaving of the threads' invocations each invocation
\* gets the outcome it would get alone: from any point it has reached, running
\* it to its end gives the outcome of the same call with nothing else going
\* on, and the callable it runs is one of the boxes, unchanged.
C8_InvocationsIsolated ==
    \A t \in Threads :
        LET fr == frames[t] IN
        fr.pc # "idle" =>
            /\ Outcome(RunFrame(fr)) = CallOutcome(fr.c, fr.input)
            /\ \E i \in DOMAIN pool : pool[i] = fr.c

C8_Witness ==
    \E t, u \in Threads :
        /\ t # u
        /\ frames[t].c.function = frames[u].c.function
        /\ frames[t].pc = "wrapped" /\ Len(frames[t].args) = 1
        /\ frames[u].pc = "wrapped" /\ Len(frames[u].args) = 0
        /\ Len(frames[u].slots) = 1

-----------------------------------------------------------------------------
(* Which functions qualify *)

\* C10: a function is a YarnFn exactly when it has zero or more parameters,
\* each passed by value and of type bool, String, a numeric type or YarnValue,
\* and returns bool, String or a numeric type.
C10_QualifiesAsDocumented ==
    \A f \in DOMAIN accepted : accepted[f] = DocQualifies(f)

-----------------------------------------------------------------------------
(* The order of events within an invocation *)

\* What a call of arity N does when nothing fails
FullEvents(fr) ==
    <<Event("arity", 0, TRUE)>>
    \o [k \in 1..Arity(fr.c) |-> Event("extract", k, TRUE)]
    \o <<Event("invoke", 0, TRUE)>>

\* C11: within an invocation the arity check comes first, then the slots are
\* extracted one at a time from left to right, then the native function is
\* invoked, once, and only after every slot was extracted successfully;
\* nothing follows a failed step, so no slot after a failed one is extracted.
C11_EventsInOrder ==
    \A t \in Threads :
        LET fr == frames[t]
            ev == fr.events
        IN  fr.pc # "idle" =>
            /\ Len(ev) >= 1 /\ Len(ev) <= Len(FullEvents(fr))
            /\ \A j \in 1..Len(ev) :
                  /\ ev[j].e = FullEvents(fr)[j].e
                  /\ ev[j].k = FullEvents(fr)[j].k
                  /\ j < Len(ev) => ev[j].ok
            /\ ev[1].ok <=> Len(fr.input) = Arity(fr.c)
            /\ fr.calls = Cardinality({j \in 1..Len(ev) : ev[j].e = "invoke"})
            /\ fr.calls <= 1
            /\ fr.pc = "panicked" <=> ~ev[Len(ev)].ok
            /\ fr.pc \in {"returned", "done"} <=> ev = FullEvents(fr)

C11_Witness ==
    \E t, u \in Threads :
        /\ frames[t].pc = "done"
        /\ frames[t].events =
              <<Event("arity", 0, TRUE), Event("extract", 1, TRUE), Event("invoke", 0, TRUE)>>
        /\ frames[u].pc = "panicked"
        /\ frames[u].events = <<Event("arity", 0, TRUE), Event("extract", 1, FALSE)>>

-----------------------------------------------------------------------------
(* The contents of a slot over an invocation *)

\* C12: a freshly wrapped slot holds its raw value and no converted value;
\* after a successful owned extraction it holds neither, the value having gone
\* to the caller; after a successful borrowed extraction the raw value is gone
\* and the owned intermediate stays in the slot, unchanged, through the native
\* call until the frame is dropped, and the view handed out shows it.
C12_SlotContents ==
    \A t \in Threads :
        LET fr == frames[t] IN
        fr.pc \in {"wrapped", "returned", "done"} =>
            /\ DOMAIN fr.slots = 1..Arity(fr.c)
            /\ \A k \in DOMAIN fr.slots :
                  LET P == fr.c.marker.params[k] IN
                  /\ k > Len(fr.args) =>
                        fr.slots[k] = [raw |-> fr.P[k], converted |-> None]
                  /\ (k <= Len(fr.args) /\ P \in OwnedParams) =>
                        /\ fr.slots[k] = [raw |-> None, converted |-> None]
                        /\ fr.args[k] = TryFromYarnValue(P, fr.P[k])
                  /\ (k <= Len(fr.args) /\ P \in RefParams) =>
                        /\ fr.slots[k] = [raw |-> None,
                                           converted |-> TryFromYarnValue("String", fr.P[k])]
                        /\ fr.args[k] = Borrowed
                        /\ Deref(fr, k) = RStr(fr.P[k].s)

C12_Witness ==
    \E t, u \in Threads :
        /\ frames[t].pc = "returned" /\ frames[t].c.function = "f_len"
        /\ frames[t].slots = <<[raw |-> None, converted |-> RString("hello")]>>
        /\ frames[u].pc = "wrapped" /\ frames[u].c.function = "f_double"
        /\ frames[u].args = <<RUsize(21)>>
        /\ frames[u].slots = <<[raw |-> None, converted |-> None]>>

-----------------------------------------------------------------------------
(* One caller invoking the callables one call after another, with the        *)
(* callables whose invocation has failed kept as history                     *)

Caller == "t1"

\* Return, noting the callable when the invocation ended in a panic
ReturnNoted(t) ==
    /\ frames[t].pc \in {"done", "panicked"}
    /\ frames' = StoreFrame(frames, t, IdleFrame)
    /\ failed' = IF frames[t].pc = "panicked" THEN failed \cup {frames[t].c} ELSE failed
    /\ UNCHANGED <<pool, cloneOf, paramVars, accepted, pluginVars>>

NextSeq ==
    \/ \E f \in FnDefs : Wrap(f)
    \/ \E i \in DOMAIN pool : Clone(i)
    \/ \E i \in DOMAIN pool, input \in Inputs : Call(Caller, i, input)
    \/ Wrapping(Caller)
    \/ Extract(Caller)
    \/ Invoke(Caller)
    \/ Finish(Caller)
    \/ ReturnNoted(Caller)

SpecSeq == Init /\ [][NextSeq]_vars

C13_LaterCallsSucceed ==
    \A c \in failed :
        /\ \E i \in DOMAIN pool : pool[i] = c
        /\ \A t \in Threads :
              LET fr == frames[t] IN
              (/\ fr.c = c
               /\ Ended(fr)
               /\ Len(fr.input) = Arity(c)
               /\ \A k \in 1..Arity(c) : Converts(fr, k))
              => (/\ fr.pc = "done"
                  /\ fr.panic = ""
                  /\ fr.calls = 1
                  /\ fr.result = IntoUntypedValue(DirectResult(fr))
                  /\ Outcome(fr) = CallOutcome(c, fr.input))

C13_NotRetried ==
    /\ \A i \in DOMAIN pool : i \in DOMAIN pool' /\ pool'[i] = pool[i]
    /\ \A t \in Threads :
          frames[t].pc = "panicked" =>
              /\ frames[t].calls = 0
              /\ frames'[t] = frames[t] \/ frames'[t] = IdleFrame

\* C13: a failure stays within its invocation: the callable is unchanged, the
\* failed invocation ends there without the native function being called or
\* the call being made again, and every later invocation of that callable or
\* of a clone with the right number of convertible arguments succeeds with
\* the result the call gives when no failure came before.
C13_FailureIsLocal == []C13_LaterCallsSucceed /\ [][C13_NotRetried]_vars

C13_Witness ==
    \E i \in DOMAIN pool :
        /\ cloneOf[i] # 0
        /\ pool[i] \in failed
        /\ frames[Caller].c = pool[i]
        /\ frames[Caller].pc = "done"
        /\ frames[Caller].result = YNumber(42)

-----------------------------------------------------------------------------
(* Building a YarnSlingerPlugin *)

Usable == plugin.built /\ plugin.panic = ""

WithYarnFiles(tg, yarn_files) ==
    /\ ~plugin.built
    /\ plugin.panic = ""
    /\ target' = tg
    /\ plugin' = [NoPlugin EXCEPT !.built = TRUE,
                                  !.yarn_files = yarn_files,
                                  !.library = StandardLibrary]
    /\ UNCHANGED <<callVars, paramVars, accepted, failed>>

WithLocalizations(localizations) ==
    /\ Usable
    /\ plugin' =
         IF /\ localizations.some
            /\ target = "wasm32"
            /\ localizations.file_generation_mode = "Development"
         THEN [NoPlugin EXCEPT !.panic = PanicWasmDevelopment]
         ELSE UpdateLanguageCode([plugin EXCEPT !.localizations = localizations])
    /\ UNCHANGED <<callVars, paramVars, accepted, failed, target>>

WithAssetProvider(asset_provider) ==
    /\ Usable
    /\ plugin' = UpdateLanguageCode([plugin EXCEPT !.asset_provider = asset_provider])
    /\ UNCHANGED <<callVars, paramVars, accepted, failed, target>>

WithAssetProviderBoxed(asset_provider) ==
    /\ Usable
    /\ plugin' = UpdateLanguageCode([plugin EXCEPT !.asset_provider = asset_provider])
    /\ UNCHANGED <<callVars, paramVars, accepted, failed, target>>

WithLibrary(library) ==
    /\ Usable
    /\ plugin' = [plugin EXCEPT !.library = @ \cup library]
    /\ UNCHANGED <<callVars, paramVars, accepted, failed, target>>

WithAdvancedConfig(config) ==
    /\ Usable
    /\ plugin' = UpdateLanguageCode(
                     [plugin EXCEPT !.advanced = ApplyConfig(config, @)])
    /\ UNCHANGED <<callVars, paramVars, accepted, failed, target>>

NextPlugin ==
    \/ \E tg \in Targets, yarn_files \in YarnFilesGiven : WithYarnFiles(tg, yarn_files)
    \/ \E l \in LocalizationsGiven : WithLocalizations(l)
    \/ \E a \in AssetProvidersGiven : WithAssetProvider(a)
    \/ \E a \in AssetProvidersGiven \cup {NoProvider} : WithAssetProviderBoxed(a)
    \/ \E library \in LibrariesGiven : WithLibrary(library)
    \/ \E config \in ConfigsGiven : WithAdvancedConfig(config)

SpecPlugin == Init /\ [][NextPlugin]_vars

BaseLanguage(localizations) ==
    IF localizations.some THEN SomeLanguage(localizations.base_language) ELSE NoLanguage

\* C14: after with_yarn_files and any sequence of the other builder
\* operations, the language last set on the plugin's text provider is the
\* base language of the plugin's localizations (none when there are no
\* localizations); an asset provider, when present, has that same language
\* and, when localizations are present, those same localizations.
C14_ProvidersFollowLocalizations ==
    Usable =>
        /\ plugin.advanced.text_provider.language = BaseLanguage(plugin.localizations)
        /\ plugin.asset_provider.some =>
              /\ plugin.asset_provider.language = BaseLanguage(plugin.localizations)
              /\ plugin.localizations.some =>
                    plugin.asset_provider.localizations = plugin.localizations

C14_Witness ==
    /\ Usable
    /\ plugin.localizations = SomeLocalizations("fr-FR", {"de-CH"}, "Production")
    /\ plugin.asset_provider.some
    /\ plugin.asset_provider.language = SomeLanguage("fr-FR")
    /\ plugin.asset_provider.localizations = plugin.localizations
    /\ plugin.advanced.text_provider.id = "CustomTextProvider"
    /\ plugin.advanced.text_provider.language = SomeLanguage("fr-FR")
    /\ plugin.advanced.variable_storage = "CustomVariableStorage"
    /\ "roll_dice" \in plugin.library

====
